---- MODULE Spec2Model ----
(***************************************************************************)
(* Model of imfile's FileDialog (src/src/file_dialog.rs): the builder      *)
(* methods and one call of spawn per displayed frame, over a small         *)
(* filesystem with permissions.  Paths are sequences of components, a      *)
(* component is the sequence of its bytes, as std::path iterates them.     *)
(***************************************************************************)
EXTENDS Naturals, Sequences, FiniteSets, TLC

VARIABLES
    cwd,            \* the process's current directory (std::env::current_dir)
    self,           \* the FileDialog value: the struct's seven fields
    live,           \* TRUE while the FileDialog value exists (spawn consumes it)
    calls,          \* the builder calls applied to self since new(), in order
    act,            \* the control the user activated in the last frame
    before,         \* cwd when the last frame began
    hidden_before,  \* self.show_hidden_files when the last frame began
    listed,         \* the directory the last frame read (<<>>: none was read)
    entries,        \* `entries` after filter_map, collect and sort_by
    controls,       \* the entry buttons of the last frame, in rendering order
    result,         \* what the last call of spawn returned
    logged,         \* TRUE when the last frame called log::error!
    read_failed,    \* TRUE when the last frame's read_dir or an entry of it was Err
    round_trip_from \* D when the frame before the last entered a subdirectory
                    \* of D by its button and the last frame activated "Back"

vars == <<cwd, self, live, calls, act, before, hidden_before, listed,
          entries, controls, result, logged, read_failed, round_trip_from>>

\* The largest number of builder calls applied to one FileDialog.
MaxCalls == 2

----------------------------------------------------------------------------
(* Paths *)

\* Component::RootDir, "/" ; Component::CurDir, "." ; Component::ParentDir
RootDir == <<47>>
CurDir == <<46>>
ParentDir == <<46, 46>>

\* the byte of '.', the pattern of line 132
Dot == 46

\* Path::new(".") as its components
DotPath == <<CurDir>>

\* the derived order of enum Component: RootDir < CurDir < ParentDir < Normal
ComponentRank(c) ==
    IF c = RootDir THEN 1 ELSE IF c = CurDir THEN 2 ELSE IF c = ParentDir THEN 3 ELSE 4

\* Ord of byte strings: "Less", "Equal" or "Greater"
RECURSIVE cmp_bytes(_, _)
cmp_bytes(a, b) ==
    IF a = <<>> /\ b = <<>> THEN "Equal"
    ELSE IF a = <<>> THEN "Less"
    ELSE IF b = <<>> THEN "Greater"
    ELSE IF Head(a) < Head(b) THEN "Less"
    ELSE IF Head(a) > Head(b) THEN "Greater"
    ELSE cmp_bytes(Tail(a), Tail(b))

cmp_component(a, b) ==
    IF ComponentRank(a) < ComponentRank(b) THEN "Less"
    ELSE IF ComponentRank(a) > ComponentRank(b) THEN "Greater"
    ELSE cmp_bytes(a, b)

\* Path::cmp: the components compared lexicographically
RECURSIVE cmp_path(_, _)
cmp_path(p, q) ==
    IF p = <<>> /\ q = <<>> THEN "Equal"
    ELSE IF p = <<>> THEN "Less"
    ELSE IF q = <<>> THEN "Greater"
    ELSE IF cmp_component(Head(p), Head(q)) # "Equal" THEN cmp_component(Head(p), Head(q))
    ELSE cmp_path(Tail(p), Tail(q))

\* Path::starts_with: base is a prefix of p, component by component
starts_with(p, base) ==
    /\ Len(base) <= Len(p)
    /\ SubSeq(p, 1, Len(base)) = base

\* PathBuf::pop: drops the last component, a no-op on the root
pop(p) == IF Len(p) <= 1 THEN p ELSE SubSeq(p, 1, Len(p) - 1)

\* entry.path().iter().last(): the entry's own name
file_name(p) == p[Len(p)]

----------------------------------------------------------------------------
(* The filesystem the dialog browses: kinds and the r and x permission of   *)
(* each directory.  "other" is an entry that is neither file nor directory. *)

nA == <<65>>
nN == <<78>>
nR == <<82>>
nb == <<98>>
nf == <<102>>
ns == <<115>>
nx == <<120>>
nh == <<46, 104>>
nd == <<46, 100>>

Dir(readable, searchable) == [kind |-> "dir", r |-> readable, x |-> searchable]
File == [kind |-> "file", r |-> TRUE, x |-> FALSE]
Other == [kind |-> "other", r |-> TRUE, x |-> FALSE]

FS ==
    (<<RootDir>> :> Dir(TRUE, TRUE))
    @@ (<<RootDir, nA>> :> Dir(TRUE, TRUE))
    @@ (<<RootDir, nb>> :> File)
    @@ (<<RootDir, nh>> :> File)
    @@ (<<RootDir, nA, nA>> :> Dir(TRUE, TRUE))
    @@ (<<RootDir, nA, nN>> :> Dir(TRUE, FALSE))
    @@ (<<RootDir, nA, nR>> :> Dir(FALSE, TRUE))
    @@ (<<RootDir, nA, nA, nd>> :> Dir(TRUE, TRUE))
    @@ (<<RootDir, nA, nA, nb>> :> File)
    @@ (<<RootDir, nA, nA, ns>> :> Other)
    @@ (<<RootDir, nA, nN, nx>> :> Dir(TRUE, TRUE))
    @@ (<<RootDir, nA, nR, nf>> :> File)

Exists(p) == p \in DOMAIN FS

Dirs == {p \in DOMAIN FS : FS[p].kind = "dir"}

\* every proper ancestor of p grants search permission
Traversable(p) == \A i \in 1..(Len(p) - 1) : FS[SubSeq(p, 1, i)].x

\* fs::metadata(p) succeeds (symlinks are not modelled)
metadata_ok(p) == Exists(p) /\ Traversable(p)

is_dir(p) == metadata_ok(p) /\ FS[p].kind = "dir"

is_file(p) == metadata_ok(p) /\ FS[p].kind = "file"

\* the path a chdir argument names: absolute, or relative to the cwd
Resolve(c, arg) == IF arg # <<>> /\ Head(arg) = RootDir THEN arg ELSE c \o arg

\* chdir(2): an absolute path is walked from the root, a relative one from
\* the cwd's inode, so only the cwd itself and the target must grant x
chdir_ok(c, arg) ==
    LET t == Resolve(c, arg) IN
    /\ Exists(t)
    /\ FS[t].kind = "dir"
    /\ FS[t].x
    /\ IF arg # <<>> /\ Head(arg) = RootDir
       THEN Traversable(t)
       ELSE \A i \in Len(c)..(Len(t) - 1) : FS[SubSeq(t, 1, i)].x

\* std::env::set_current_dir: the outcome and the cwd it leaves
set_current_dir(c, arg) ==
    IF chdir_ok(c, arg)
    THEN [cwd |-> Resolve(c, arg), ok |-> TRUE]
    ELSE [cwd |-> c, ok |-> FALSE]

\* fs::read_dir(p) returns Ok: p is a directory that can be reached and read
read_dir_ok(p) ==
    /\ Exists(p)
    /\ FS[p].kind = "dir"
    /\ Traversable(p)
    /\ FS[p].r

\* the paths fs::read_dir(p) yields, entry.path() of each entry
read_dir(p) == {q \in DOMAIN FS : Len(q) = Len(p) + 1 /\ SubSeq(q, 1, Len(p)) = p}

\* read_dir yields the entries in an order the platform chooses: the
\* sequences that hold each entry of directory d once
Orders ==
    [d \in Dirs |->
        {o \in [1..Cardinality(read_dir(d)) -> read_dir(d)] :
            \A i, j \in 1..Cardinality(read_dir(d)) : o[i] = o[j] => i = j}]

----------------------------------------------------------------------------
(* FileDialog: construction and the builder methods *)

new ==
    [accept_text |-> "Open",
     cancel_text |-> "Cancel",
     title |-> "Open File",
     filename |-> "",
     is_open |-> TRUE,
     dirs_only |-> FALSE,
     show_hidden_files |-> FALSE]

title_sets_accept(d, s) == [d EXCEPT !.title = s, !.accept_text = s]

title(d, s) == [d EXCEPT !.title = s]

accept_text(d, s) == [d EXCEPT !.accept_text = s]

cancel_text(d, s) == [d EXCEPT !.cancel_text = s]

dir_only(d) == [d EXCEPT !.dirs_only = TRUE]

for_save(d) == [d EXCEPT !.is_open = FALSE, !.dirs_only = FALSE]

\* the arguments the host passes (src/src/lib.rs, src/examples/basic.rs)
Titles == {"Title"}
AcceptTexts == {"Open file"}
CancelTexts == {"Close"}

Call(m, arg) == [arg |-> arg, m |-> m]

\* one builder call applied to a dialog
Apply(d, c) ==
    CASE c.m = "title" -> title(d, c.arg)
      [] c.m = "accept_text" -> accept_text(d, c.arg)
      [] c.m = "cancel_text" -> cancel_text(d, c.arg)
      [] c.m = "dir_only" -> dir_only(d)
      [] c.m = "for_save" -> for_save(d)

\* FileDialog::new() followed by the calls of cs, in order
RECURSIVE Chain(_)
Chain(cs) == IF cs = <<>> THEN new ELSE Apply(Chain(SubSeq(cs, 1, Len(cs) - 1)), cs[Len(cs)])

----------------------------------------------------------------------------
(* spawn: the entry listing *)

\* the closure of filter_map: Some(entry) or None
keep(d, e) ==
    IF d.show_hidden_files THEN TRUE ELSE ~starts_with(e, DotPath)

RECURSIVE filter_map(_, _)
filter_map(d, s) ==
    IF s = <<>> THEN <<>>
    ELSE IF keep(d, Head(s)) THEN <<Head(s)>> \o filter_map(d, Tail(s))
    ELSE filter_map(d, Tail(s))

compare_kind_only(a, b) ==
    IF is_dir(a) /\ ~is_dir(b) THEN "Less"
    ELSE IF ~is_dir(a) /\ is_dir(b) THEN "Greater"
    ELSE "Equal"

\* the comparator passed to sort_by
compare(a, b) ==
    IF is_dir(a) /\ ~is_dir(b) THEN "Less"
    ELSE IF ~is_dir(a) /\ is_dir(b) THEN "Greater"
    ELSE cmp_path(a, b)

\* e inserted after the last element of the sorted s that is not Greater
RECURSIVE insert(_, _)
insert(s, e) ==
    IF s = <<>> THEN <<e>>
    ELSE IF compare(s[Len(s)], e) = "Greater"
         THEN Append(insert(SubSeq(s, 1, Len(s) - 1), e), s[Len(s)])
         ELSE Append(s, e)

\* slice::sort_by, a stable sort
RECURSIVE sort_by(_)
sort_by(s) ==
    IF s = <<>> THEN <<>> ELSE insert(sort_by(SubSeq(s, 1, Len(s) - 1)), s[Len(s)])

Control(kind, p) == [kind |-> kind, path |-> p]

shows_file_ignoring_dirs_only(d, p) == is_file(p)

\* the first branch of the rendering loop: a "[file]" button
shows_file(d, p) == is_file(p) /\ ~d.dirs_only

\* the second branch: a "[dir] " button
shows_dir(d, p) == ~shows_file(d, p) /\ is_dir(p)

\* the buttons `for entry in entries` renders, in order
RECURSIVE entry_controls(_, _)
entry_controls(d, s) ==
    IF s = <<>> THEN <<>>
    ELSE IF shows_file(d, Head(s)) THEN <<Control("file", Head(s))>> \o entry_controls(d, Tail(s))
    ELSE IF shows_dir(d, Head(s)) THEN <<Control("dir", Head(s))>> \o entry_controls(d, Tail(s))
    ELSE entry_controls(d, Tail(s))

----------------------------------------------------------------------------
(* spawn: the controls and what activating one does *)

\* Option<PathBuf>, and the panic that unwinds out of spawn instead
None == [path |-> <<>>, tag |-> "None"]
Some(p) == [path |-> p, tag |-> "Some"]
Panic == [path |-> <<>>, tag |-> "Panic"]

\* the control the user activates in a frame: at most one button reports a
\* click per frame.  k is the index of a breadcrumb or of an entry button.
Click(kind, k) == [kind |-> kind, k |-> k]

UnitClicks == {Click(kd, 0) : kd \in {"none", "label", "back", "open", "hidden"}}

\* the most entries a directory of FS holds
MaxListing ==
    CHOOSE n \in 0..Cardinality(DOMAIN FS) :
        /\ \A d \in Dirs : Cardinality(read_dir(d)) <= n
        /\ \E d \in Dirs : Cardinality(read_dir(d)) = n

Clicks(c) ==
    UnitClicks
    \cup {Click("crumb", k) : k \in 1..Len(c)}
    \cup {Click("entry", i) : i \in 1..MaxListing}

\* the breadcrumb closure: the button of component dir was clicked
crumb_click(c, dir) == set_current_dir(c, <<dir>>)

file_click_keeps_path(path, p) == path

\* `path = Some(entry.path())` of the "[file]" button
file_click(path, p) == Some(p)

dir_click_assumes_success(c, p) == [cwd |-> p, ok |-> chdir_ok(c, p)]

\* set_current_dir(entry.path()) of the "[dir] " button
dir_click(c, p) == set_current_dir(c, p)

back_click_stays(c) == c

\* the "Back" button: the cwd with its last component popped; errors dropped
back_click(c) == set_current_dir(c, pop(c)).cwd

\* imgui's Ui::checkbox: a click flips the value behind the reference and
\* the call returns true
checkbox(v, clicked) == [pressed |-> clicked, value |-> IF clicked THEN ~v ELSE v]

\* the "Hidden Files" checkbox and the body of its `if`
hidden_click(v, clicked) ==
    LET cb == checkbox(v, clicked) IN
    IF cb.pressed THEN ~cb.value ELSE cb.value

listing_skips_errors(dir_ok, entry_error) == FALSE

\* the two unwraps of the listing: read_dir(..).unwrap() and entry.expect(..)
listing_panics(dir_ok, entry_error) == ~dir_ok \/ entry_error

----------------------------------------------------------------------------
(* The state machine *)

Init ==
    /\ cwd \in Dirs
    /\ self = new
    /\ live = TRUE
    /\ calls = <<>>
    /\ act = Click("none", 0)
    /\ before = cwd
    /\ hidden_before = FALSE
    /\ listed = <<>>
    /\ entries = <<>>
    /\ controls = <<>>
    /\ result = None
    /\ logged = FALSE
    /\ read_failed = FALSE
    /\ round_trip_from = <<>>

history == <<act, before, hidden_before, listed, entries, controls, result, logged,
             read_failed, round_trip_from>>

\* a panic has unwound out of spawn: the host's frame loop is gone
panicked == result.tag = "Panic"

\* FileDialog::new()
New ==
    /\ ~panicked
    /\ self' = new
    /\ live' = TRUE
    /\ calls' = <<>>
    /\ UNCHANGED <<cwd, history>>

Builder(c) ==
    /\ ~panicked
    /\ live
    /\ Len(calls) < MaxCalls
    /\ self' = Apply(self, c)
    /\ calls' = Append(calls, c)
    /\ UNCHANGED <<cwd, live, history>>

Title == \E s \in Titles : Builder(Call("title", s))

AcceptText == \E s \in AcceptTexts : Builder(Call("accept_text", s))

CancelText == \E s \in CancelTexts : Builder(Call("cancel_text", s))

DirOnly == Builder(Call("dir_only", ""))

ForSave == Builder(Call("for_save", ""))

\* the frame after the listing was built from the read order `order`
\* (each \E over a singleton names a value of the frame, computed once)
Render(click, cwd1, crumb_ok, order) ==
    \E ents \in {sort_by(filter_map(self, order))} :
    \E ctrls \in {entry_controls(self, ents)} :
    /\ click.kind = "entry" => click.k <= Len(ctrls)
    /\ \E hit \in {IF click.kind = "entry" THEN ctrls[click.k] ELSE Control("none", <<>>)} :
       \E cd \in {IF hit.kind = "dir" THEN dir_click(cwd1, hit.path) ELSE [cwd |-> cwd1, ok |-> TRUE]} :
       \E path \in {IF hit.kind = "file" THEN file_click(None, hit.path) ELSE None} :
        /\ cwd' = IF click.kind = "back" THEN back_click(cd.cwd) ELSE cd.cwd
        /\ self' = [self EXCEPT !.show_hidden_files = hidden_click(@, click.kind = "hidden")]
        /\ act' = IF click.kind = "entry" THEN Click(hit.kind, click.k) ELSE click
        /\ listed' = cwd1
        /\ entries' = ents
        /\ controls' = ctrls
        /\ result' = IF cd.ok THEN path ELSE None
        /\ logged' = (~crumb_ok \/ ~cd.ok)

\* the unwind out of the listing: nothing after it is rendered
Unwind(click, cwd1, crumb_ok) ==
    /\ click.kind \in {"none", "label", "crumb"}
    /\ cwd' = cwd1
    /\ self' = self
    /\ act' = click
    /\ listed' = <<>>
    /\ entries' = <<>>
    /\ controls' = <<>>
    /\ result' = Panic
    /\ logged' = ~crumb_ok

\* FileDialog::spawn, one frame: click is the control activated in it,
\* entry_error an Err item of the ReadDir iterator
Spawn ==
    /\ ~panicked
    /\ live
    /\ \E click \in Clicks(cwd), entry_error \in BOOLEAN :
        \E crumb \in {IF click.kind = "crumb"
                       THEN crumb_click(cwd, cwd[click.k])
                       ELSE [cwd |-> cwd, ok |-> TRUE]} :
            /\ live' = FALSE
            /\ calls' = calls
            /\ before' = cwd
            /\ hidden_before' = self.show_hidden_files
            /\ read_failed' = (~read_dir_ok(crumb.cwd) \/ entry_error)
            /\ round_trip_from' =
                    IF click.kind = "back" /\ act.kind = "dir" /\ ~logged THEN before ELSE <<>>
            /\ IF listing_panics(read_dir_ok(crumb.cwd), entry_error)
               THEN Unwind(click, crumb.cwd, crumb.ok)
               ELSE \E order \in Orders[crumb.cwd] :
                        Render(click, crumb.cwd, crumb.ok, order)

Next == New \/ Title \/ AcceptText \/ CancelText \/ DirOnly \/ ForSave \/ Spawn

Spec == Init /\ [][Next]_vars

----------------------------------------------------------------------------
(* Properties *)

\* spawn has returned (or unwound) and the dialog was not rebuilt since:
\* self holds the fields as the frame left them
returned == ~live

\* the path of the entry button the last frame activated
hit_path == controls[act.k].path

\* the dialog as it was when the last frame built its listing
listing_self == [self EXCEPT !.show_hidden_files = hidden_before]

is_hidden(p) == Head(file_name(p)) = Dot

\* C1 as stated: a frame returns Some(path) exactly when a file button was
\* activated by a dialog in Open mode, path being that file's full path, and
\* None in every other frame, a frame of a Save-mode dialog included.
C1_SomeOnlyInOpenMode ==
    returned /\ ~panicked =>
        /\ result.tag = "Some" <=> (act.kind = "file" /\ self.is_open)
        /\ result.tag = "Some" => result.path = hit_path

\* C1 amended: a frame returns Some(path) exactly when a file button was
\* activated in it, in Open and in Save mode alike; path is that file's full
\* path, an entry of the directory the frame began in, which stays the cwd;
\* every other frame that returns, returns None.
C1_SomeIffFileActivated ==
    returned /\ ~panicked =>
        /\ act.kind = "file" =>
            /\ result = Some(hit_path)
            /\ FS[result.path].kind = "file"
            /\ pop(result.path) = before
            /\ cwd = before
        /\ act.kind # "file" => result = None

C1_FileActivatedInSaveMode ==
    returned /\ act.kind = "file" /\ ~self.is_open /\ result.tag = "Some"

\* C2: with show_hidden_files false the listing holds no entry whose name
\* begins with '.' and every entry whose name does not; with it true the
\* listing holds every entry of the directory.
C2_HiddenEntriesFiltered ==
    returned /\ listed # <<>> =>
        LET shown == {entries[i] : i \in 1..Len(entries)} IN
        IF hidden_before
        THEN shown = read_dir(listed)
        ELSE shown = {p \in read_dir(listed) : ~is_hidden(p)}

\* C3: the entry buttons come with every directory before every file and in
\* ascending path order within each kind, and the order is the same for
\* every order in which the directory can be read.
C3_DirsFirstThenByPath ==
    returned /\ listed # <<>> =>
        /\ \A i, j \in 1..Len(controls) : i < j =>
            /\ controls[i].kind = "dir" \/ controls[j].kind = "file"
            /\ controls[i].kind = controls[j].kind =>
                cmp_path(controls[i].path, controls[j].path) = "Less"
        /\ \A o \in Orders[listed] :
            entry_controls(listing_self, sort_by(filter_map(listing_self, o))) = controls

C3_MixedListingRendered ==
    /\ returned
    /\ Len(controls) >= 3
    /\ \E i, j \in 1..Len(controls) : controls[i].kind = "dir" /\ controls[j].kind = "file"
    /\ \E i, j \in 1..Len(controls) : i # j /\ controls[i].kind = controls[j].kind

\* C4: activating a directory button makes that directory the cwd; when the
\* change fails (it is logged) the cwd is what it was when the frame began
\* and the frame returns None.
C4_DirClickChangesOrKeeps ==
    returned /\ act.kind = "dir" =>
        /\ ~logged => cwd = hit_path /\ chdir_ok(before, hit_path)
        /\ logged => cwd = before /\ result = None /\ ~chdir_ok(before, hit_path)

C4_DirClickFailed ==
    returned /\ act.kind = "dir" /\ logged /\ cwd = before /\ hit_path # before

\* C5: activating the breadcrumb of the k-th component of the cwd makes the
\* cwd the path of its first k components.
C5_CrumbTruncates ==
    returned /\ act.kind = "crumb" => cwd = SubSeq(before, 1, act.k)

\* C6: entering a subdirectory of D by its button and then activating Back
\* leaves the cwd at D; Back at the filesystem root leaves the cwd there.
C6_BackRoundTrip ==
    returned /\ act.kind = "back" =>
        /\ round_trip_from # <<>> => cwd = round_trip_from /\ pop(before) = round_trip_from
        /\ before = <<RootDir>> => cwd = <<RootDir>>

C6_RoundTripDone ==
    returned /\ act.kind = "back" /\ round_trip_from # <<>> /\ before # round_trip_from

\* C7: a frame that activates "Hidden Files" leaves show_hidden_files the
\* negation of what it was when the frame began; any other frame leaves it
\* as it was.
C7_HiddenFilesToggles ==
    returned /\ ~panicked =>
        IF act.kind = "hidden"
        THEN self.show_hidden_files = ~hidden_before
        ELSE self.show_hidden_files = hidden_before

\* C8 as stated: no frame is aborted; spawn always returns a value.
C8_NeverAborts == ~panicked

\* C8 amended: a failed change of directory never aborts the frame: it is
\* logged, the cwd is unchanged and the frame returns None.  A failure to
\* read the current directory or one of its entries does abort it: spawn
\* panics and returns no value, and it panics in no other frame.
C8_AbortsOnlyOnReadFailure ==
    returned =>
        /\ panicked <=> read_failed
        /\ logged /\ ~read_failed => result = None /\ cwd = before

C8_ReadFailureAborted ==
    returned /\ read_failed /\ panicked /\ ~read_dir_ok(cwd)

\* the five fields the builder methods configure
Config(d) == <<d.title, d.accept_text, d.cancel_text, d.is_open, d.dirs_only>>

\* no method is called twice
DistinctMethods(cs) == \A i, j \in 1..Len(cs) : cs[i].m = cs[j].m => i = j

\* the orders in which the calls of cs can be applied
Reorderings(cs) ==
    {[i \in 1..Len(cs) |-> cs[f[i]]] :
        f \in {g \in [1..Len(cs) -> 1..Len(cs)] : \A i, j \in 1..Len(cs) : g[i] = g[j] => i = j}}

Position(cs, m) == CHOOSE i \in 0..Len(cs) : IF i = 0 THEN \A j \in 1..Len(cs) : cs[j].m # m ELSE cs[i].m = m

\* dir_only and for_save come in the same order in cs and in ds
SameModeOrder(cs, ds) ==
    (Position(cs, "dir_only") < Position(cs, "for_save"))
        <=> (Position(ds, "dir_only") < Position(ds, "for_save"))

\* C9 as stated: the same builder calls applied to new() in any order give
\* the same configuration.
C9_BuildersCommute ==
    live /\ DistinctMethods(calls) =>
        \A o \in Reorderings(calls) : Config(Chain(o)) = Config(self)

\* C9 amended: the same builder calls applied to new() in any order that
\* keeps dir_only and for_save in the same relative order give the same
\* configuration; for_save clears directories_only, so directories_only is
\* true exactly when dir_only was called and for_save was not called after it.
C9_BuildersCommuteButModeOrder ==
    live /\ DistinctMethods(calls) =>
        /\ \A o \in Reorderings(calls) :
            SameModeOrder(calls, o) => Config(Chain(o)) = Config(self)
        /\ self.dirs_only <=>
            /\ Position(calls, "dir_only") > 0
            /\ Position(calls, "for_save") < Position(calls, "dir_only")

C9_BothModeBuildersCalled ==
    /\ live
    /\ DistinctMethods(calls)
    /\ Position(calls, "dir_only") > 0
    /\ Position(calls, "for_save") > Position(calls, "dir_only")
    /\ ~self.dirs_only

\* C10: a frame of a dialog with directories_only renders no file button,
\* whatever the directory holds, and does not return Some(path).
C10_DirsOnlyNoFiles ==
    returned /\ self.dirs_only =>
        /\ \A i \in 1..Len(controls) : controls[i].kind # "file"
        /\ result.tag # "Some"

C10_DirsOnlyOverFiles ==
    /\ returned
    /\ self.dirs_only
    /\ listed # <<>>
    /\ \E p \in read_dir(listed) : is_file(p)
    /\ Len(controls) > 0

====
